---- MODULE Spec2Model ----
(***************************************************************************)
(* GhostFetch: the job broker (src/src/core/job_manager.py), the fetch     *)
(* engine (src/src/core/scraper.py) and the proxy health manager           *)
(* (src/src/core/stealth_utils.py) as state machines.                      *)
(*                                                                         *)
(* Every asyncio task advances from one suspension point (an await that    *)
(* can yield) to the next in one atomic action: the event loop never       *)
(* preempts a task between two awaits.                                     *)
(*                                                                         *)
(* Specifications:                                                         *)
(*   Spec       JobManager: submit, workers, cleanup.  The result of the   *)
(*              awaited scraper call is an input of the worker's step and  *)
(*              ranges over every way the call expression can end.         *)
(*   FairSpec   submit and workers with the event loop's fairness: a task  *)
(*              that can run is eventually run.                            *)
(*   WiredSpec  JobManager wired to StealthScraper as in src/main.py, for   *)
(*              jobs whose URLs load.                                      *)
(*   WebhookSpec submit with or without callback_url, workers, and the     *)
(*              webhook tasks.                                             *)
(*   LegacySpec the earlier broker module src/job_manager.py: submit and   *)
(*              its workers.                                               *)
(*   BackoffSpec submit and workers with the jitter of every backoff sleep. *)
(*   SubSpec    submit and workers with subscribers that subscribe, read   *)
(*              and unsubscribe.                                           *)
(*   StalledSpec submit and workers with subscribers that never read,     *)
(*              under the same fairness as FairSpec.                       *)
(*   EngineSpec StealthScraper.fetch called concurrently by several tasks, *)
(*              without a proxies file.                                    *)
(*   AttemptSpec one task calling StealthScraper.fetch through the proxy   *)
(*              pool of a proxies file.                                    *)
(*   CancelSpec StealthScraper.fetch called concurrently by tasks that can  *)
(*              be cancelled at any await.                                 *)
(*   FingerprintSpec the fingerprint cache of StealthScraper.fetch under    *)
(*              lookups at any moments.                                    *)
(*   SettleSpec the settle step of StealthScraper.fetch under calls for    *)
(*              URLs of several hosts.                                     *)
(*   ProxySpec  ProxyManager with a proxies file and the round_robin       *)
(*              strategy, under any sequence of calls.                     *)
(***************************************************************************)
EXTENDS Integers, Sequences, FiniteSets, TLC

(***************************************************************************)
(* Bounds of the model.                                                    *)
(***************************************************************************)
MaxJobs == 2
MaxTime == 2
MaxFetches == 4
MaxGets == 4
MaxSubscribers == 2
MaxFailures == 4

(***************************************************************************)
(* Settings (src/src/utils/config.py).  All are read from the environment; *)
(* the model runs a configuration with small values.                       *)
(***************************************************************************)
MAX_CONCURRENT_BROWSERS == 2
MAX_RETRIES == 2
MIN_DOMAIN_DELAY == 2
MAX_REQUESTS_PER_BROWSER == 2
\* One tick of `now` is one hour in Spec (the cleanup task sleeps 3600 s) and
\* one second in EngineSpec.
JOB_TTL_SECONDS == 1
CLEANUP_SLEEP == 1

\* Python's None (a row that does not exist, an unset field).
None == [none |-> TRUE]
NoTime == -1

Workers == 1..MAX_CONCURRENT_BROWSERS
JobIds == 1..MaxJobs

VARIABLES
    now,          \* time.time()
    db,           \* the jobs table: job id -> row, or None
    queue,        \* JobManager.queue
    nextId,       \* number of ids uuid4 has handed out
    wpc,          \* where each worker task is suspended
    wjob,         \* each worker's local `job` object
    attempt,      \* each worker's local `attempt`
    slept,        \* history: the delays each worker has slept between the
                  \* attempts of its job, in units of 1/JitterUnit s
    cleanupAt,    \* when the cleanup task's sleep ends
    subscribers,  \* JobManager.subscribers: a sequence of mailboxes
    streams,      \* history, per subscriber and job: the number of saves of
                  \* the job that were made before it subscribed or that it
                  \* has been handed
    written,      \* history: statuses saved (and broadcast) per job
    calls,        \* history: scraper.fetch calls made per job
    lastError,    \* history: how the latest scraper.fetch call of each job ended
    webhooks,     \* per job: the _send_callback_async tasks created for it
                  \* (scheduled) and the requests.post calls they made (posted)
    task,            \* each task calling StealthScraper.fetch: its locals
    ended,           \* history: how the fetch call that ended last ended
    fetches,         \* history: number of fetch calls made so far
    semaphore,       \* StealthScraper.semaphore: free slots
    restart_lock,    \* StealthScraper.restart_lock: the task holding it, or 0
    requests_count,  \* StealthScraper.requests_count
    browser,         \* StealthScraper.browser: the instance, or 0 for None
    closing,         \* browser.close() has been issued on `browser`
    launched,        \* history: number of browser instances launched
    served,          \* history: navigations dispatched on instance `browser`
    open_contexts,   \* history: contexts created on `browser` and not closed
    last_fetch,      \* StealthScraper.last_fetch
    session,         \* cookies_<host>.json: 0 when there is no file, else
                     \* the number of times storage_state has written it
    domain_fingerprints,  \* StealthScraper.domain_fingerprints
    tweet_waits,     \* history: the URLs whose settle step has run, in order,
                     \* each with whether the tweet wait was made for it
    proxies,         \* ProxyManager.proxies
    bad_proxies,     \* ProxyManager.bad_proxies
    proxy_failures,  \* ProxyManager.proxy_failures
    rr_index,        \* RoundRobinStrategy._index
    returned,        \* history: what get_next_proxy returned last (0: None)
    streak,          \* history: mark_bad calls on a proxy since its last mark_good
    failed_attempts, \* history: per proxy, the fetch attempts that used it
                     \* and failed since the last one whose navigation
                     \* succeeded (or since startup)
    barred           \* history: the proxies with 3 consecutive mark_bad calls,
                     \* in the order they got there, since the last full-pool reset

brokerVars == <<db, queue, nextId, wpc, wjob, attempt, slept, cleanupAt,
                subscribers, streams, written, calls, lastError, webhooks>>

proxyVars == <<proxies, bad_proxies, proxy_failures, rr_index, returned,
               streak, failed_attempts, barred>>

browserVars == <<restart_lock, requests_count, browser, closing, launched>>

hostVars == <<session, domain_fingerprints, tweet_waits>>

engineVars == <<task, ended, fetches, semaphore, browserVars, served,
                open_contexts, last_fetch, hostVars, proxyVars>>

vars == <<now, brokerVars, engineVars>>

(***************************************************************************)
(* Error classification.                                                   *)
(***************************************************************************)
RetryableServerErrors == 500..599
RetryableStatuses == {408, 429, 500, 502, 503, 504}

\* `if response.status >= 400`: statuses that are classified as errors, the
\* retryable ones and their neighbours.
ErrorStatuses ==
    {400, 401, 403, 404, 407, 408, 409, 428, 429, 430, 499,
     500, 501, 502, 503, 504, 505, 599}

ScraperError(error_code, retryable) ==
    [kind |-> "ScraperError", error_code |-> error_code, retryable |-> retryable]

\* error_code: a name, and for http_<N> the status N.
Code(name) == [name |-> name, status |-> 0]
HttpCode(status) == [name |-> "http", status |-> status]

NoResponseError == ScraperError(Code("no_response"), TRUE)
TimeoutError == ScraperError(Code("timeout"), TRUE)
FetchError == ScraperError(Code("fetch_error"), TRUE)
NoContentError == ScraperError(Code("no_content"), TRUE)
HttpError(status) ==
    ScraperError(HttpCode(status), status \in RetryableStatuses)

\* HTTP statuses >= 400 the model's servers answer with.
Statuses == {404, 503}

\* The ways `await self.scraper.fetch(...)` can end.
Artifact == [kind |-> "dict"]
Empty == [kind |-> "empty"]
OtherException == [kind |-> "Exception"]

EngineErrors == {NoResponseError, TimeoutError, FetchError}
                    \cup {HttpError(s) : s \in Statuses}

\* One outcome of each kind the worker tells apart: a dict, a falsy result,
\* a retryable ScraperError, a non-retryable one, any other exception.
CallOutcomes == {Artifact, Empty, OtherException, TimeoutError, HttpError(404)}

(***************************************************************************)
(* Call binding.  StealthScraper.fetch(self, url) takes no keyword but     *)
(* url; a call with any other keyword raises TypeError before the          *)
(* coroutine is created.                                                   *)
(***************************************************************************)
FetchParams == {"url"}
WorkerCallKwargs == {"context_id"}
SyncCallKwargs == {"context_id"}
DirectCallKwargs == {}

Binds(kwargs) == kwargs \subseteq FetchParams

\* What the worker's call can produce with StealthScraper as the scraper.
WiredOutcomes ==
    IF Binds(WorkerCallKwargs) THEN {Artifact, Empty} \cup EngineErrors
    ELSE {OtherException}

(***************************************************************************)
(* Job rows.                                                               *)
(***************************************************************************)
\* The callback_url of a submission: none, or a URL.
CallbackUrl == [url |-> "hook"]
CallbackUrls == {None, CallbackUrl}

Job(job_id, callback_url) ==
    [id |-> job_id, callback_url |-> callback_url, status |-> "queued",
     result |-> None, error |-> None, error_details |-> None,
     completed_at |-> NoTime]

Terminal == {"completed", "failed"}

\* asyncio.Queue.full() of a queue made by asyncio.Queue(): maxsize is 0,
\* so the queue is never full and put_nowait never raises QueueFull.
MailboxFullAtOne(q) == Len(q) >= 1
MailboxFull(q) == FALSE

\* _broadcast: put_nowait on every subscriber's mailbox.
BroadcastPrepend(subs, data) == [i \in DOMAIN subs |-> <<data>> \o subs[i]]
Broadcast(subs, data) == [i \in DOMAIN subs |-> Append(subs[i], data)]

\* `json.dumps(v) if v else None`: a falsy value (None, "", {}) is stored
\* as NULL; json.loads gives back what json.dumps was given.
Dumps(v) == IF v \in {None, [kind |-> "empty"]} THEN None ELSE v

\* The row _save_job writes for a job object.
Row(job) == [job EXCEPT !.result = Dumps(@), !.error_details = Dumps(@)]

\* _save_job: INSERT OR REPLACE the row, then broadcast the update.
SaveJob(job) ==
    /\ \A i \in DOMAIN subscribers : ~MailboxFull(subscribers[i])
    /\ db' = [db EXCEPT ![job.id] = Row(job)]
    /\ subscribers' = Broadcast(subscribers,
                                [type |-> "job_update", job_id |-> job.id,
                                 status |-> job.status])
    /\ written' = [written EXCEPT ![job.id] = Append(@, job.status)]

(***************************************************************************)
(* The fetch engine's callers, hosts and proxies.                          *)
(***************************************************************************)
\* Concurrent callers of StealthScraper.fetch: one more than the gate admits.
Tasks == 1..(MAX_CONCURRENT_BROWSERS + 1)

\* urlparse(url).netloc of the URLs fetched.
Hosts == {"a.com", "b.com"}

\* The lines of PROXIES_FILE when there is one.
Proxies == <<"P1", "P2">>
NoProxy == "none"

\* A proxy is quarantined at this many consecutive failures.
BAD_THRESHOLD == 3

NoOutcome == [kind |-> "none"]

\* A host without an entry in domain_fingerprints.
NoFingerprint == [fp |-> 0, ts |-> NoTime]

\* The locals of a task that is not inside fetch.
IdleTask ==
    [pc |-> "idle", domain |-> "none", wake |-> 0, proxy_url |-> NoProxy,
     context |-> 0, content |-> NoOutcome, bad |-> 0, good |-> 0]

\* JobManager.__init__
InitBroker ==
    /\ now = 0
    /\ db = [j \in JobIds |-> None]
    /\ queue = <<>>
    /\ nextId = 0
    /\ wpc = [w \in Workers |-> "get"]
    /\ wjob = [w \in Workers |-> None]
    /\ attempt = [w \in Workers |-> 0]
    /\ slept = [w \in Workers |-> <<>>]
    /\ cleanupAt = 0
    /\ subscribers = <<>>
    /\ streams = <<>>
    /\ written = [j \in JobIds |-> <<>>]
    /\ calls = [j \in JobIds |-> 0]
    /\ lastError = [j \in JobIds |-> "none"]
    /\ webhooks = [j \in JobIds |-> [scheduled |-> 0, posted |-> 0]]

\* StealthScraper.__init__, but for the proxy list
InitEngine ==
    /\ task = [c \in Tasks |-> IdleTask]
    /\ ended = NoOutcome
    /\ fetches = 0
    /\ semaphore = MAX_CONCURRENT_BROWSERS
    /\ restart_lock = 0
    /\ requests_count = 0
    /\ browser = 0
    /\ closing = FALSE
    /\ launched = 0
    /\ served = 0
    /\ open_contexts = 0
    /\ last_fetch = [h \in Hosts |-> NoTime]
    /\ session = [h \in Hosts |-> 0]
    /\ domain_fingerprints = [h \in Hosts |-> NoFingerprint]
    /\ tweet_waits = <<>>
    /\ bad_proxies = {}
    /\ proxy_failures = [i \in 1..Len(Proxies) |-> 0]
    /\ rr_index = 0
    /\ returned = 0
    /\ streak = [i \in 1..Len(Proxies) |-> 0]
    /\ failed_attempts = [i \in 1..Len(Proxies) |-> 0]
    /\ barred = <<>>

\* No PROXIES_FILE (settings.get_proxies returns []).
Init == InitBroker /\ InitEngine /\ proxies = <<>>

\* With a PROXIES_FILE.
InitProxies == InitBroker /\ InitEngine /\ proxies = Proxies

Tick ==
    /\ now < MaxTime
    /\ now' = now + 1
    /\ UNCHANGED <<brokerVars, engineVars>>

\* submit_job: a fresh id, save as queued, enqueue (the queue is unbounded,
\* so put never suspends).  Ids are numbered in the order of the calls, so a
\* call that ended before another began has the smaller id.  asyncio.Queue
\* is a deque: put appends at the right, get takes from the left.
PutFront(q, job_id) == <<job_id>> \o q
PutNowhere(q, job_id) == q
Put(q, job_id) == Append(q, job_id)

SubmitJob(callback_url) ==
    /\ nextId < MaxJobs
    /\ nextId' = nextId + 1
    /\ SaveJob(Job(nextId + 1, callback_url))
    /\ queue' = Put(queue, nextId + 1)
    /\ UNCHANGED <<now, wpc, wjob, attempt, slept, cleanupAt, calls, lastError, streams,
                   webhooks, engineVars>>

\* `job.completed_at = time.time()` after the retry loop.
CompletionUnset(job, t) == job
Completion(job, t) == [job EXCEPT !.completed_at = t]

\* Lines 159-162: the job object after an attempt that returned a dict.
CompletedJobStale(job, result) ==
    [job EXCEPT !.result = result, !.status = "completed"]
CompletedJob(job, result) ==
    [job EXCEPT !.result = result, !.status = "completed",
                !.error = None, !.error_details = None]

\* Lines 167-168: the job object after an attempt that raised ScraperError e.
FailingNoDetails(job, e) == [job EXCEPT !.error = [message |-> e.error_code]]
Failing(job, e) ==
    [job EXCEPT !.error = [message |-> e.error_code],
                !.error_details = [code |-> e.error_code,
                                   retryable |-> e.retryable]]

\* Lines 182-184: the job object after an attempt that raised any other
\* exception.
InternalFailureRetryable(job) ==
    [job EXCEPT !.error = [message |-> Code("exception")],
                !.error_details = [code |-> Code("internal_error"),
                                   retryable |-> TRUE],
                !.status = "failed"]
InternalFailure(job) ==
    [job EXCEPT !.error = [message |-> Code("exception")],
                !.error_details = [code |-> Code("internal_error"),
                                   retryable |-> FALSE],
                !.status = "failed"]

\* Lines 193-194: `if job.callback_url: asyncio.create_task(...)`.  The
\* task is created, not awaited.
ScheduleCallbackAlways(hooks, job) ==
    [hooks EXCEPT ![job.id].scheduled = @ + 1]
ScheduleCallback(hooks, job) ==
    IF job.callback_url # None
    THEN [hooks EXCEPT ![job.id].scheduled = @ + 1]
    ELSE hooks

\* After the retry loop: set completed_at, save, schedule the webhook, and
\* go back to queue.get().
FinishJob(w, job) ==
    /\ SaveJob(Completion(job, now))
    /\ webhooks' = ScheduleCallback(webhooks, job)
    /\ wpc' = [wpc EXCEPT ![w] = "get"]
    /\ wjob' = [wjob EXCEPT ![w] = None]

\* The head of the retry loop: `while attempt <= settings.MAX_RETRIES`.
LoopGuardStrict(n) == n < MAX_RETRIES
LoopGuard(n) == n <= MAX_RETRIES

\* `attempt += 1` before the backoff sleep.
NextAttemptStuck(n) == n
NextAttempt(n) == n + 1

\* The retry decision of `except ScraperError`.
ShouldRetryAnyError(e, n) == n < MAX_RETRIES
ShouldRetryOneLess(e, n) == e.retryable /\ n < MAX_RETRIES - 1
ShouldRetryAtBudget(e, n) == e.retryable /\ n <= MAX_RETRIES
ShouldRetry(e, n) == e.retryable /\ n < MAX_RETRIES

\* queue.get() removes the id it returns from the queue.
AfterGetKeeps(q) == q
AfterGet(q) == Tail(q)

\* queue.get() returns: read the row, mark it processing, save, enter the loop.
WorkerGet(w) ==
    /\ wpc[w] = "get"
    /\ queue # <<>>
    /\ queue' = AfterGet(queue)
    /\ LET job_id == Head(queue)
           row == db[job_id]
       IN IF row = None
          THEN UNCHANGED <<db, subscribers, written, wpc, wjob, attempt, slept,
                           webhooks>>
          ELSE LET job == [row EXCEPT !.status = "processing"]
               IN /\ attempt' = [attempt EXCEPT ![w] = 0]
                  /\ slept' = [slept EXCEPT ![w] = <<>>]
                  /\ IF LoopGuard(0)
                     THEN /\ SaveJob(job)
                          /\ wpc' = [wpc EXCEPT ![w] = "fetch"]
                          /\ wjob' = [wjob EXCEPT ![w] = job]
                          /\ UNCHANGED webhooks
                     ELSE \* the loop body never runs: both saves happen
                          \* without a suspension in between
                          /\ db' = [db EXCEPT ![job_id] =
                                       Row(Completion(job, now))]
                          /\ subscribers' =
                               Broadcast(Broadcast(subscribers,
                                   [type |-> "job_update", job_id |-> job_id,
                                    status |-> job.status]),
                                   [type |-> "job_update", job_id |-> job_id,
                                    status |-> job.status])
                          /\ written' = [written EXCEPT ![job_id] =
                                           @ \o <<job.status, job.status>>]
                          /\ webhooks' = ScheduleCallback(webhooks, job)
                          /\ wpc' = [wpc EXCEPT ![w] = "get"]
                          /\ wjob' = [wjob EXCEPT ![w] = None]
    /\ UNCHANGED <<now, nextId, cleanupAt, calls, lastError, streams, engineVars>>

\* The resolution of the backoff jitter: random.uniform(0, 1) is one of
\* 0/JitterUnit, ..., (JitterUnit - 1)/JitterUnit.
JitterUnit == 2
Jitters == 0..(JitterUnit - 1)

\* `delay = (2 ** attempt) + random.uniform(0, 1)`, in units of 1/JitterUnit s.
DelayFlat(n, jitter) == JitterUnit * 2 + jitter
Delay(n, jitter) == JitterUnit * (2 ^ n) + jitter

\* `await self.scraper.fetch(...)` ends with outcome o; the rest of the loop
\* body runs up to the next suspension (the backoff sleep, for which
\* random.uniform draws `jitter`, or queue.get()).
WorkerAttempt(w, o, jitter) ==
    /\ wpc[w] = "fetch"
    /\ LET job == wjob[w]
           \* `if not result or not isinstance(result, dict)` raises no_content
           e == IF o = Empty THEN NoContentError ELSE o
       IN /\ calls' = [calls EXCEPT ![job.id] = @ + 1]
          /\ CASE o = Artifact ->
                    /\ FinishJob(w, CompletedJob(job, o))
                    /\ lastError' = [lastError EXCEPT ![job.id] = "none"]
                    /\ UNCHANGED <<attempt, slept>>
               [] e.kind = "ScraperError" ->
                    LET failing == Failing(job, e)
                    IN /\ lastError' = [lastError EXCEPT ![job.id] =
                                IF e.retryable THEN "retryable" ELSE "fatal"]
                       /\ IF ShouldRetry(e, attempt[w])
                          THEN /\ attempt' = [attempt EXCEPT ![w] = NextAttempt(@)]
                               /\ slept' = [slept EXCEPT ![w] =
                                     Append(@, Delay(NextAttempt(attempt[w]),
                                                     jitter))]
                               /\ wjob' = [wjob EXCEPT ![w] = failing]
                               /\ wpc' = [wpc EXCEPT ![w] = "backoff"]
                               /\ UNCHANGED <<db, subscribers, written,
                                              webhooks>>
                          ELSE /\ FinishJob(w, [failing EXCEPT
                                                    !.status = "failed"])
                               /\ UNCHANGED <<attempt, slept>>
               [] OTHER ->
                    /\ lastError' = [lastError EXCEPT ![job.id] = "internal"]
                    /\ FinishJob(w, InternalFailure(job))
                    /\ UNCHANGED <<attempt, slept>>
    /\ UNCHANGED <<now, queue, nextId, cleanupAt, streams, engineVars>>

\* The same with the jitter at 0: the amount slept decides nothing in the
\* broker.
WorkerFetch(w, o) == WorkerAttempt(w, o, 0)

\* asyncio.sleep(delay) returns; the loop guard is evaluated again.
WorkerBackoff(w) ==
    /\ wpc[w] = "backoff"
    /\ IF LoopGuard(attempt[w])
       THEN /\ wpc' = [wpc EXCEPT ![w] = "fetch"]
            /\ UNCHANGED <<db, subscribers, written, wjob, webhooks>>
       ELSE FinishJob(w, wjob[w])
    /\ UNCHANGED <<now, queue, nextId, attempt, slept, cleanupAt, calls, lastError, streams, engineVars>>

(***************************************************************************)
(* The earlier broker module (src/job_manager.py), which the repository    *)
(* keeps next to src/src/core/job_manager.py.  It differs in the retry     *)
(* loop: the guard compares `attempt` with MAX_REQUESTS_PER_BROWSER, the    *)
(* retry decision with a local max_retries, and a falsy result completes    *)
(* the job.                                                                 *)
(***************************************************************************)
\* `max_retries = 3`
max_retries == 3

\* `while attempt <= settings.MAX_REQUESTS_PER_BROWSER`
LegacyLoopGuard(n) == n <= MAX_REQUESTS_PER_BROWSER

\* `if e.retryable and attempt < max_retries`
LegacyShouldRetry(e, n) == e.retryable /\ n < max_retries

\* `await self.scraper.fetch(job.url)` ends with outcome o; the rest of the
\* loop body runs up to the next suspension.
LegacyWorkerFetch(w, o) ==
    /\ wpc[w] = "fetch"
    /\ LET job == wjob[w]
           jitter == 0
       IN /\ calls' = [calls EXCEPT ![job.id] = @ + 1]
          /\ CASE o \in {Artifact, Empty} ->
                    /\ FinishJob(w, CompletedJob(job, o))
                    /\ lastError' = [lastError EXCEPT ![job.id] = "none"]
                    /\ UNCHANGED <<attempt, slept>>
               [] o.kind = "ScraperError" ->
                    LET failing == Failing(job, o)
                    IN /\ lastError' = [lastError EXCEPT ![job.id] =
                                IF o.retryable THEN "retryable" ELSE "fatal"]
                       /\ IF LegacyShouldRetry(o, attempt[w])
                          THEN /\ attempt' = [attempt EXCEPT ![w] = NextAttempt(@)]
                               /\ slept' = [slept EXCEPT ![w] =
                                     Append(@, Delay(NextAttempt(attempt[w]),
                                                     jitter))]
                               /\ wjob' = [wjob EXCEPT ![w] = failing]
                               /\ wpc' = [wpc EXCEPT ![w] = "backoff"]
                               /\ UNCHANGED <<db, subscribers, written,
                                              webhooks>>
                          ELSE /\ FinishJob(w, [failing EXCEPT
                                                    !.status = "failed"])
                               /\ UNCHANGED <<attempt, slept>>
               [] OTHER ->
                    /\ lastError' = [lastError EXCEPT ![job.id] = "internal"]
                    /\ FinishJob(w, InternalFailure(job))
                    /\ UNCHANGED <<attempt, slept>>
    /\ UNCHANGED <<now, queue, nextId, cleanupAt, streams, engineVars>>

\* asyncio.sleep(delay) returns; the loop guard is evaluated again, and when
\* it is false the code after the loop runs with the job as it is.
LegacyWorkerBackoff(w) ==
    /\ wpc[w] = "backoff"
    /\ IF LegacyLoopGuard(attempt[w])
       THEN /\ wpc' = [wpc EXCEPT ![w] = "fetch"]
            /\ UNCHANGED <<db, subscribers, written, wjob, webhooks>>
       ELSE FinishJob(w, wjob[w])
    /\ UNCHANGED <<now, queue, nextId, attempt, slept, cleanupAt, calls, lastError,
                   streams, engineVars>>

\* The earlier broker: submissions and its worker tasks.  The part of the
\* worker before the loop is the same code, and the guard holds at
\* attempt = 0 with either setting.
LegacyNext ==
    \/ SubmitJob(None)
    \/ \E w \in Workers : WorkerGet(w)
    \/ \E w \in Workers : \E o \in CallOutcomes : LegacyWorkerFetch(w, o)
    \/ \E w \in Workers : LegacyWorkerBackoff(w)

LegacySpec == Init /\ [][LegacyNext]_vars

\* DELETE FROM jobs WHERE completed_at IS NOT None AND completed_at < cutoff
ExpiredUnfinished(row, cutoff) ==
    /\ row # None
    /\ row.completed_at < cutoff
Expired(row, cutoff) ==
    /\ row # None
    /\ row.completed_at # NoTime
    /\ row.completed_at < cutoff

\* _cleanup_task: one pass of the loop, then sleep.
Cleanup ==
    /\ now >= cleanupAt
    /\ db' = [j \in JobIds |->
                 IF Expired(db[j], now - JOB_TTL_SECONDS) THEN None ELSE db[j]]
    /\ cleanupAt' = now + CLEANUP_SLEEP
    /\ UNCHANGED <<now, queue, nextId, wpc, wjob, attempt, slept, subscribers,
                   written, calls, lastError, streams, webhooks, engineVars>>

\* s without its i-th element.
Remove(s, i) == SubSeq(s, 1, i - 1) \o SubSeq(s, i + 1, Len(s))

\* subscribe() is iterated for the first time: a new mailbox is appended.
Subscribe ==
    /\ Len(subscribers) < MaxSubscribers
    /\ subscribers' = Append(subscribers, <<>>)
    /\ streams' = Append(streams, [j \in JobIds |-> Len(written[j])])
    /\ UNCHANGED <<now, db, queue, nextId, wpc, wjob, attempt, slept, cleanupAt,
                   written, calls, lastError, webhooks, engineVars>>

\* `yield await q.get()`: the subscriber is handed the oldest event.
Deliver(i) ==
    /\ subscribers[i] # <<>>
    /\ subscribers' = [subscribers EXCEPT ![i] = Tail(@)]
    /\ streams' = [streams EXCEPT ![i][Head(subscribers[i]).job_id] = @ + 1]
    /\ UNCHANGED <<now, db, queue, nextId, wpc, wjob, attempt, slept, cleanupAt,
                   written, calls, lastError, webhooks, engineVars>>

\* The generator is closed: `finally: self.subscribers.remove(q)`.
Unsubscribe(i) ==
    /\ subscribers' = Remove(subscribers, i)
    /\ streams' = Remove(streams, i)
    /\ UNCHANGED <<now, db, queue, nextId, wpc, wjob, attempt, slept, cleanupAt,
                   written, calls, lastError, webhooks, engineVars>>

\* _send_callback in its thread: one requests.post, which returns (ok) or
\* raises; the exception is logged and the task ends either way.
SendCallback(j, ok) ==
    /\ webhooks[j].posted < webhooks[j].scheduled
    /\ webhooks' = [webhooks EXCEPT ![j].posted = @ + 1]
    /\ UNCHANGED <<now, db, queue, nextId, wpc, wjob, attempt, slept, cleanupAt,
                   subscribers, streams, written, calls, lastError,
                   engineVars>>

\* Submissions without callback_url and the worker tasks: callback_url is
\* read at line 193 only, after the last save of the job.
NextJobs ==
    \/ SubmitJob(None)
    \/ \E w \in Workers : WorkerGet(w)
    \/ \E w \in Workers : \E o \in CallOutcomes : WorkerFetch(w, o)
    \/ \E w \in Workers : WorkerBackoff(w)

Next ==
    \/ Tick
    \/ Cleanup
    \/ NextJobs

Spec == Init /\ [][Next]_vars

\* The event loop runs every task that is ready, and every awaited scraper
\* call and sleep ends.
\* No step of a worker branches on the clock or reads a row back from the
\* store, so FairSpec leaves the clock at 0 and the cleanup task asleep.
FairSpec ==
    /\ Init /\ [][NextJobs]_vars
    /\ \A w \in Workers :
          /\ WF_vars(WorkerGet(w))
          /\ WF_vars(\E o \in CallOutcomes : WorkerFetch(w, o))
          /\ WF_vars(WorkerBackoff(w))


\* Submissions and the worker tasks with every jitter random.uniform can
\* draw before a backoff sleep, for calls that return a dict or raise a
\* retryable error: no other outcome leads to a sleep.
BackoffOutcomes == {Artifact, TimeoutError}

BackoffNext ==
    \/ SubmitJob(None)
    \/ \E w \in Workers : WorkerGet(w)
    \/ \E w \in Workers : \E o \in BackoffOutcomes : \E jitter \in Jitters :
          WorkerAttempt(w, o, jitter)
    \/ \E w \in Workers : WorkerBackoff(w)

BackoffSpec == Init /\ [][BackoffNext]_vars

\* What the worker's call produces, with StealthScraper as the scraper, for
\* a URL that the browser loads with non-empty content.
WiredLoadable == WiredOutcomes \ ({Empty} \cup EngineErrors)

\* The broker as main.py builds it, JobManager(StealthScraper()), with jobs
\* whose URLs load.  No call ends in a retryable error, so no worker ever
\* sleeps in the backoff.
WiredNext ==
    \/ Tick
    \/ Cleanup
    \/ SubmitJob(None)
    \/ \E w \in Workers : WorkerGet(w)
    \/ \E w \in Workers : \E o \in WiredLoadable : WorkerFetch(w, o)

WiredSpec == Init /\ [][WiredNext]_vars

\* Submissions with or without callback_url, the worker tasks and the
\* webhook tasks they create.
WebhookNext ==
    \/ \E callback_url \in CallbackUrls : SubmitJob(callback_url)
    \/ \E w \in Workers : WorkerGet(w)
    \/ \E w \in Workers : \E o \in CallOutcomes : WorkerFetch(w, o)
    \/ \E w \in Workers : WorkerBackoff(w)
    \/ \E j \in JobIds : \E ok \in BOOLEAN : SendCallback(j, ok)

WebhookSpec == Init /\ [][WebhookNext]_vars

\* Submissions and the worker tasks when every scraper call ends a job, with
\* a dict or with an exception: the saves, which are what subscribers are
\* told, are the same with retries in between.
FinalOutcomes == {Artifact, OtherException}

NextJobsOnce ==
    \/ SubmitJob(None)
    \/ \E w \in Workers : WorkerGet(w)
    \/ \E w \in Workers : \E o \in FinalOutcomes : WorkerFetch(w, o)

\* The broker with subscribers that come, read and go.
SubNext ==
    \/ NextJobsOnce
    \/ Subscribe
    \/ \E i \in DOMAIN subscribers : Deliver(i)
    \/ \E i \in DOMAIN subscribers : Unsubscribe(i)

SubSpec == Init /\ [][SubNext]_vars

\* The broker with subscribers that never read their mailbox and never
\* leave, under the event loop's fairness for the workers.
StalledNext ==
    \/ NextJobsOnce
    \/ Subscribe

StalledSpec ==
    /\ Init /\ [][StalledNext]_vars
    /\ \A w \in Workers :
          /\ WF_vars(WorkerGet(w))
          /\ WF_vars(\E o \in FinalOutcomes : WorkerFetch(w, o))

(***************************************************************************)
(* Proxy health manager (src/src/core/stealth_utils.py).  Proxies are      *)
(* named by their place in ProxyManager.proxies.                           *)
(***************************************************************************)
ProxyIds == 1..Len(proxies)

\* get_next_proxy: the proxies not quarantined, in list order.
AvailableProxiesUnfiltered(bad) == [i \in ProxyIds |-> i]
AvailableProxies(bad) ==
    SelectSeq([i \in ProxyIds |-> i], LAMBDA i : i \notin bad)

\* get_next_proxy: when every proxy is quarantined the set is cleared.
BadAfterGetKeeps(bad) == bad
BadAfterGet(bad) ==
    IF AvailableProxies(bad) = <<>> THEN {} ELSE bad

\* RoundRobinStrategy.get_proxy over the available proxies; 0 for None.
GetNextProxy(bad, index) ==
    LET available == AvailableProxies(BadAfterGet(bad))
    IN IF available = <<>> THEN 0
       ELSE available[(index % Len(available)) + 1]

IndexAfterGet(index) == IF Len(proxies) = 0 THEN index ELSE index + 1

\* mark_bad called n times in a row on proxy p.
FailuresAfterBad(failures, p, n) == [failures EXCEPT ![p] = @ + n]

BadAfterBad(failures, bad, p, n) ==
    IF n > 0 /\ failures[p] + n >= BAD_THRESHOLD THEN bad \cup {p} ELSE bad

\* mark_good
FailuresAfterGood(failures, p) == [failures EXCEPT ![p] = 0]

BadAfterGood(bad, p) == bad \ {p}

\* The history variables, kept from the calls alone: n calls of mark_bad on
\* p, a call of mark_good on p, a call of get_next_proxy (which finds every
\* proxy barred: the full-pool reset).
StreakAfterBad(p, n) == [streak EXCEPT ![p] = @ + n]

BarredAfterBad(p, n) ==
    IF n > 0 /\ streak[p] + n >= 3 /\ \A i \in 1..Len(barred) : barred[i] # p
    THEN Append(barred, p) ELSE barred

BarredAfterGood(p) == SelectSeq(barred, LAMBDA i : i # p)

BarredAfterGet ==
    IF Len(proxies) > 0 /\ Len(barred) = Len(proxies) THEN <<>> ELSE barred

\* ProxyManager.get_next_proxy() is called.
GetNextProxyCall ==
    /\ rr_index < MaxGets
    /\ returned' = GetNextProxy(bad_proxies, rr_index)
    /\ bad_proxies' = BadAfterGet(bad_proxies)
    /\ rr_index' = IndexAfterGet(rr_index)
    /\ barred' = BarredAfterGet
    /\ UNCHANGED <<now, brokerVars, task, ended, fetches, semaphore,
                   browserVars, served, open_contexts, last_fetch, hostVars, proxies,
                   proxy_failures, streak, failed_attempts>>

\* ProxyManager.mark_bad(proxies[p]) is called.
MarkBadCall(p) ==
    /\ proxy_failures[p] < MaxFailures
    /\ proxy_failures' = FailuresAfterBad(proxy_failures, p, 1)
    /\ bad_proxies' = BadAfterBad(proxy_failures, bad_proxies, p, 1)
    /\ streak' = StreakAfterBad(p, 1)
    /\ barred' = BarredAfterBad(p, 1)
    /\ UNCHANGED <<now, brokerVars, task, ended, fetches, semaphore,
                   browserVars, served, open_contexts, last_fetch, hostVars, proxies,
                   rr_index, returned, failed_attempts>>

\* ProxyManager.mark_good(proxies[p]) is called.
MarkGoodCall(p) ==
    /\ proxy_failures' = FailuresAfterGood(proxy_failures, p)
    /\ bad_proxies' = BadAfterGood(bad_proxies, p)
    /\ streak' = [streak EXCEPT ![p] = 0]
    /\ barred' = BarredAfterGood(p)
    /\ UNCHANGED <<now, brokerVars, task, ended, fetches, semaphore,
                   browserVars, served, open_contexts, last_fetch, hostVars, proxies,
                   rr_index, returned, failed_attempts>>

\* The proxy manager of a proxies file under any sequence of calls.
ProxyNext ==
    \/ GetNextProxyCall
    \/ \E p \in ProxyIds : MarkBadCall(p)
    \/ \E p \in ProxyIds : MarkGoodCall(p)

ProxySpec == InitProxies /\ [][ProxyNext]_vars

(***************************************************************************)
(* Fetch engine (src/src/core/scraper.py).                                 *)
(***************************************************************************)
\* The context a task holds belongs to the browser that is still running.
Alive(c) == task[c].context # 0 /\ task[c].context = browser

\* Leaving `async with self.semaphore`: the slot is released and the call
\* ends with `outcome`.
LeaveKeepsSlot(c, outcome) ==
    /\ semaphore' = semaphore
    /\ task' = [task EXCEPT ![c] = IdleTask]
    /\ ended' = outcome
Leave(c, outcome) ==
    /\ semaphore' = semaphore + 1
    /\ task' = [task EXCEPT ![c] = IdleTask]
    /\ ended' = outcome

\* fetch is called and the semaphore is acquired.
FetchAcquire(c, domain) ==
    /\ task[c].pc = "idle"
    /\ fetches < MaxFetches
    /\ semaphore > 0
    /\ semaphore' = semaphore - 1
    /\ fetches' = fetches + 1
    /\ task' = [task EXCEPT ![c] = [IdleTask EXCEPT !.pc = "lock",
                                                    !.domain = domain]]
    /\ UNCHANGED <<now, brokerVars, ended, browserVars, served, open_contexts,
                   last_fetch, hostVars, proxyVars>>

\* `if elapsed < settings.MIN_DOMAIN_DELAY`: the pacing sleep is needed.
MustWait(domain) ==
    /\ last_fetch[domain] # NoTime
    /\ now - last_fetch[domain] < MIN_DOMAIN_DELAY

\* self.fingerprint_ttl (3600 s), in ticks of `now`: longer than one tick, so
\* that lookups fall inside and outside of it within MaxTime.
fingerprint_ttl == 2

\* Lines 115-117: the host has an entry and it is younger than the TTL.
CacheHitSliding(cache, domain, t, stamp) ==
    /\ cache[domain] # NoFingerprint
    /\ stamp # NoTime
    /\ t - stamp < fingerprint_ttl
CacheHit(cache, domain, t, stamp) ==
    /\ cache[domain] # NoFingerprint
    /\ t - cache[domain].ts < fingerprint_ttl

\* Lines 114-124: domain_fingerprints after the lookup for `domain` at time
\* t.  FingerprintGenerator.generate() draws a bundle at random; bundles are
\* named by their number in the order they were generated for the host.
\* `stamp` is the time of the lookup before this one, which the code does
\* not keep.
FingerprintsAfterLookup(cache, domain, t, stamp) ==
    IF CacheHit(cache, domain, t, stamp) THEN cache
    ELSE [cache EXCEPT ![domain] = [fp |-> @.fp + 1, ts |-> t]]

\* Lines 110-144, run without suspension: stamp last_fetch, pick the proxy,
\* and call self.browser.new_context on the browser `b` that self.browser
\* holds at this moment.
Dispatch(c, b, b_closing) ==
    LET domain == task[c].domain
        p == GetNextProxy(bad_proxies, rr_index)
        proxy_url == IF p = 0 THEN NoProxy ELSE proxies[p]
    IN /\ last_fetch' = [last_fetch EXCEPT ![domain] = now]
       /\ domain_fingerprints' =
              FingerprintsAfterLookup(domain_fingerprints, domain, now,
                                      last_fetch[domain])
       /\ UNCHANGED <<session, tweet_waits>>
       /\ bad_proxies' = BadAfterGet(bad_proxies)
       /\ rr_index' = IndexAfterGet(rr_index)
       /\ returned' = p
       /\ barred' = BarredAfterGet
       /\ UNCHANGED <<proxies, proxy_failures, streak, failed_attempts>>
       /\ IF b = 0
          THEN \* self.browser is None: AttributeError
               /\ semaphore' = semaphore + 1
               /\ task' = [task EXCEPT ![c] = IdleTask]
               /\ ended' = OtherException
          ELSE /\ task' = [task EXCEPT ![c] =
                              [@ EXCEPT !.pc = "new_context",
                                        !.proxy_url = proxy_url,
                                        \* a call issued after close() fails
                                        !.context = IF b_closing THEN -1 ELSE b]]
               /\ UNCHANGED <<semaphore, ended>>

\* After the restart section: the pacing check, then sleep or dispatch.
Pace(c, b, b_closing) ==
    IF MustWait(task[c].domain)
    THEN /\ task' = [task EXCEPT ![c] =
                        [@ EXCEPT !.pc = "pacing",
                                  !.wake = last_fetch[task[c].domain]
                                            + MIN_DOMAIN_DELAY]]
         /\ UNCHANGED <<semaphore, ended, last_fetch, hostVars, proxyVars>>
    ELSE Dispatch(c, b, b_closing)

\* `if self.requests_count > settings.MAX_REQUESTS_PER_BROWSER`
MustRestart(count) == count > MAX_REQUESTS_PER_BROWSER

\* The restart lock is acquired: count the request; restart the browser,
\* launch it if there is none, or go on to pacing.  asyncio.Lock serves its
\* waiters in arrival order; a call that waits here behaves as the same call
\* made at the moment it gets the lock, so the order is left open.
FetchLock(c) ==
    /\ task[c].pc = "lock"
    /\ restart_lock = 0
    /\ requests_count' = requests_count + 1
    /\ IF MustRestart(requests_count + 1) /\ browser # 0
       THEN \* stop(): await self.browser.close()
            /\ restart_lock' = c
            /\ closing' = TRUE
            /\ task' = [task EXCEPT ![c].pc = "closing"]
            /\ UNCHANGED <<browser, semaphore, ended, last_fetch, hostVars,
                           proxyVars>>
       ELSE IF browser = 0
       THEN \* start(): await the launch
            /\ restart_lock' = c
            /\ task' = [task EXCEPT ![c].pc = "launching"]
            /\ UNCHANGED <<browser, closing, semaphore, ended, last_fetch, hostVars, proxyVars>>
       ELSE /\ Pace(c, browser, closing)
            /\ UNCHANGED <<restart_lock, browser, closing>>
    /\ UNCHANGED <<now, brokerVars, fetches, launched, served, open_contexts>>

\* browser.close() and playwright.stop() are done: self.browser is None and
\* every context of the instance is gone; requests_count = 1; start() begins.
RestartClosed(c) ==
    /\ task[c].pc = "closing"
    /\ browser' = 0
    /\ closing' = FALSE
    /\ requests_count' = 1
    /\ open_contexts' = 0
    /\ task' = [task EXCEPT ![c].pc = "launching"]
    /\ UNCHANGED <<now, brokerVars, ended, fetches, semaphore, restart_lock,
                   launched, served, last_fetch, hostVars, proxyVars>>

\* The launch is done: a new instance; the lock is released and the task
\* goes on to pacing.
RestartLaunched(c) ==
    /\ task[c].pc = "launching"
    /\ launched' = launched + 1
    /\ browser' = launched + 1
    /\ served' = 0
    /\ restart_lock' = 0
    /\ Pace(c, launched + 1, FALSE)
    /\ UNCHANGED <<now, brokerVars, fetches, requests_count, closing,
                   open_contexts>>

\* The pacing sleep is over.
PaceWake(c) ==
    /\ task[c].pc = "pacing"
    /\ now >= task[c].wake
    /\ Dispatch(c, browser, closing)
    /\ UNCHANGED <<now, brokerVars, fetches, browserVars, served,
                   open_contexts>>

\* The proxy the attempt of task c was given by get_next_proxy: its place in
\* ProxyManager.proxies, or 0 when the attempt runs without a proxy.
UsedProxy(c) ==
    CHOOSE i \in ProxyIds \cup {0} :
        IF task[c].proxy_url = NoProxy THEN i = 0
        ELSE i # 0 /\ proxies[i] = task[c].proxy_url

\* The attempt of task c fails here (an exception is raised in it).
AttemptFailed(c) ==
    IF UsedProxy(c) = 0 THEN failed_attempts
    ELSE [failed_attempts EXCEPT ![UsedProxy(c)] = @ + 1]

\* The engine's state of the proxy pool, which only page.goto's outcome
\* changes once the proxy is picked.
poolVars == <<proxies, bad_proxies, proxy_failures, rr_index, returned,
              streak, barred>>

\* new_context returns a context or raises (ok = FALSE, or the browser is
\* gone); the exception is raised outside the try block.
NewContextDone(c, ok) ==
    /\ task[c].pc = "new_context"
    /\ IF ok /\ Alive(c)
       THEN /\ open_contexts' = open_contexts + 1
            /\ task' = [task EXCEPT ![c].pc = "setup"]
            /\ UNCHANGED <<semaphore, ended>>
       ELSE /\ Leave(c, OtherException)
            /\ UNCHANGED open_contexts
    /\ failed_attempts' = IF ok /\ Alive(c) THEN failed_attempts
                          ELSE AttemptFailed(c)
    /\ UNCHANGED <<now, brokerVars, fetches, browserVars, served, last_fetch,
                   hostVars, poolVars>>

\* add_init_script and new_page return, and page.goto is issued; or one of
\* them raises, outside the try block: the context is never closed.
SetupDone(c, ok) ==
    /\ task[c].pc = "setup"
    /\ IF ok /\ Alive(c)
       THEN /\ served' = served + 1
            /\ task' = [task EXCEPT ![c].pc = "goto"]
            /\ UNCHANGED <<semaphore, ended>>
       ELSE /\ Leave(c, OtherException)
            /\ UNCHANGED served
    /\ failed_attempts' = IF ok /\ Alive(c) THEN failed_attempts
                          ELSE AttemptFailed(c)
    /\ UNCHANGED <<now, brokerVars, fetches, browserVars, open_contexts,
                   last_fetch, hostVars, poolVars>>

\* What page.goto can do.
GotoResults ==
    {[kind |-> "response", status |-> 200], [kind |-> "no_response"],
     [kind |-> "timeout"], [kind |-> "error"]}
        \cup {[kind |-> "response", status |-> s] : s \in Statuses}

\* Lines 157-181: the error the inner try block raises for r, or NoOutcome.
Classify(r) ==
    CASE r.kind = "no_response" -> NoResponseError
      [] r.kind = "response" /\ r.status >= 400 -> HttpError(r.status)
      [] r.kind = "response" -> NoOutcome
      [] r.kind = "timeout" -> TimeoutError
      [] OTHER -> FetchError

\* Lines 157-181: the number of mark_bad calls made for r.  A ScraperError
\* raised inside the try block is caught by `except Exception`, which calls
\* mark_bad again before re-raising it.
MarkBadCalls(r) ==
    CASE r.kind = "no_response" -> 2
      [] r.kind = "response" /\ r.status >= 400 -> 2
      [] r.kind = "response" -> 0
      [] OTHER -> 1

\* page.goto ends with r.
GotoDone(c, r) ==
    /\ task[c].pc = "goto"
    /\ Alive(c) \/ r.kind = "error"
    /\ LET e == Classify(r)
           p == UsedProxy(c)
           n == MarkBadCalls(r)
       IN /\ IF p = 0
             THEN UNCHANGED <<proxy_failures, bad_proxies, streak, barred,
                              failed_attempts>>
             ELSE IF e = NoOutcome
             THEN /\ proxy_failures' = FailuresAfterGood(proxy_failures, p)
                  /\ bad_proxies' = BadAfterGood(bad_proxies, p)
                  /\ streak' = [streak EXCEPT ![p] = 0]
                  /\ barred' = BarredAfterGood(p)
                  /\ failed_attempts' = [failed_attempts EXCEPT ![p] = 0]
             ELSE /\ proxy_failures' = FailuresAfterBad(proxy_failures, p, n)
                  /\ bad_proxies' = BadAfterBad(proxy_failures, bad_proxies, p, n)
                  /\ streak' = StreakAfterBad(p, n)
                  /\ barred' = BarredAfterBad(p, n)
                  /\ failed_attempts' = AttemptFailed(c)
          /\ task' = [task EXCEPT ![c] =
                [@ EXCEPT
                   \* ok: the settle sleep; error: finally, context.close()
                   !.pc = IF e = NoOutcome THEN "settle" ELSE "close",
                   !.content = e,
                   !.bad = IF p = 0 \/ e = NoOutcome THEN 0 ELSE n,
                   !.good = IF p # 0 /\ e = NoOutcome THEN 1 ELSE 0]]
    /\ UNCHANGED <<now, brokerVars, ended, fetches, semaphore, browserVars,
                   served, open_contexts, last_fetch, hostVars, proxies, rr_index,
                   returned>>

ContentResults == {Artifact, Empty, OtherException}

\* Lines 197-203: after page.content() the task awaits storage_state, or,
\* when page.content() raised, goes straight to the finally clause.
AfterContentAlwaysStores(r) == "storage"
AfterContent(r) == IF r = OtherException THEN "close" ELSE "storage"

\* The settle sleep (and for a tweet URL the selector wait, the scroll and
\* the 2 s sleep, whose exceptions are swallowed) is over, and page.content()
\* returns the HTML (r is Artifact), an empty string (Empty) or raises
\* (OtherException, the only way when the browser is gone).
ContentDone(c, r) ==
    /\ task[c].pc = "settle"
    /\ Alive(c) \/ r = OtherException
    /\ task' = [task EXCEPT ![c] =
                   [@ EXCEPT !.pc = AfterContent(r), !.content = r]]
    /\ failed_attempts' = IF r = OtherException THEN AttemptFailed(c)
                          ELSE failed_attempts
    /\ UNCHANGED <<now, brokerVars, ended, fetches, semaphore, browserVars,
                   served, open_contexts, last_fetch, hostVars, poolVars>>

\* storage_state(path=storage_path) writes the file of the host anew.
SessionAfterWrite(files, domain) == [files EXCEPT ![domain] = @ + 1]

\* context.storage_state(path=...) returns, having written the file, or
\* raises, having written nothing; then finally.
StorageDone(c, ok) ==
    /\ task[c].pc = "storage"
    /\ task' = [task EXCEPT ![c] =
                   [@ EXCEPT !.pc = "close",
                             !.content = IF ok /\ Alive(c) THEN @
                                         ELSE OtherException]]
    /\ session' = IF ok /\ Alive(c)
                  THEN SessionAfterWrite(session, task[c].domain)
                  ELSE session
    /\ failed_attempts' = IF ok /\ Alive(c) THEN failed_attempts
                          ELSE AttemptFailed(c)
    /\ UNCHANGED <<now, brokerVars, ended, fetches, semaphore, browserVars,
                   served, open_contexts, last_fetch, domain_fingerprints,
                   tweet_waits,
                   poolVars>>

\* finally: context.close() returns; the pending exception propagates, or
\* the parsed content (or "") is returned.
ContextClosed(c) ==
    /\ task[c].pc = "close"
    /\ open_contexts' = IF Alive(c) THEN open_contexts - 1 ELSE open_contexts
    /\ Leave(c, task[c].content)
    /\ UNCHANGED <<now, brokerVars, fetches, browserVars, served, last_fetch, hostVars, proxyVars>>

\* asyncio.CancelledError, a BaseException: `except Exception` does not
\* catch it.
Cancelled == [kind |-> "CancelledError"]

\* The task awaiting fetch is cancelled (asyncio.wait_for at its deadline):
\* CancelledError is raised at the await the call is suspended in.  Inside
\* the try block the finally clause awaits context.close() first; anywhere
\* else the exception leaves through the two `async with` blocks, which
\* release the restart lock if the task holds it and the semaphore slot.  A
\* browser.close() already issued is not taken back, and self.browser is
\* left as it was.  A storage_state call that is cancelled may have written
\* the file already (wrote).
Cancel(c, wrote) ==
    /\ task[c].pc # "idle"
    /\ wrote => task[c].pc = "storage" /\ Alive(c)
    /\ session' = IF wrote THEN SessionAfterWrite(session, task[c].domain)
                  ELSE session
    /\ IF task[c].pc \in {"goto", "settle", "storage"}
       THEN /\ task' = [task EXCEPT ![c] = [@ EXCEPT !.pc = "close",
                                                      !.content = Cancelled]]
            /\ UNCHANGED <<semaphore, ended, restart_lock, open_contexts>>
       ELSE /\ Leave(c, Cancelled)
            /\ restart_lock' = IF restart_lock = c THEN 0 ELSE restart_lock
            /\ open_contexts' = IF task[c].pc = "close" /\ Alive(c)
                                THEN open_contexts - 1 ELSE open_contexts
    /\ UNCHANGED <<now, brokerVars, fetches, requests_count, browser, closing,
                   launched, served, last_fetch, domain_fingerprints,
                   tweet_waits,
                   proxyVars>>

EngineNext ==
    \/ Tick
    \/ \E c \in Tasks : \E domain \in Hosts : FetchAcquire(c, domain)
    \/ \E c \in Tasks : FetchLock(c)
    \/ \E c \in Tasks : RestartClosed(c)
    \/ \E c \in Tasks : RestartLaunched(c)
    \/ \E c \in Tasks : PaceWake(c)
    \/ \E c \in Tasks : \E ok \in BOOLEAN : NewContextDone(c, ok)
    \/ \E c \in Tasks : \E ok \in BOOLEAN : SetupDone(c, ok)
    \/ \E c \in Tasks : \E r \in GotoResults : GotoDone(c, r)
    \/ \E c \in Tasks : \E r \in ContentResults : ContentDone(c, r)
    \/ \E c \in Tasks : \E ok \in BOOLEAN : StorageDone(c, ok)
    \/ \E c \in Tasks : ContextClosed(c)

EngineSpec == Init /\ [][EngineNext]_vars

\* The callers of the fetch engine when any of them can be cancelled at any
\* await.  The clock stands still, so a pacing sleep ends by cancellation
\* only.
CancelNext ==
    \/ \E c \in Tasks : \E domain \in Hosts : FetchAcquire(c, domain)
    \/ \E c \in Tasks : FetchLock(c)
    \/ \E c \in Tasks : RestartClosed(c)
    \/ \E c \in Tasks : RestartLaunched(c)
    \/ \E c \in Tasks : \E ok \in BOOLEAN : NewContextDone(c, ok)
    \/ \E c \in Tasks : \E ok \in BOOLEAN : SetupDone(c, ok)
    \/ \E c \in Tasks : \E r \in GotoResults : GotoDone(c, r)
    \/ \E c \in Tasks : \E r \in ContentResults : ContentDone(c, r)
    \/ \E c \in Tasks : \E ok \in BOOLEAN : StorageDone(c, ok)
    \/ \E c \in Tasks : ContextClosed(c)
    \/ \E c \in Tasks : \E wrote \in BOOLEAN : Cancel(c, wrote)

CancelSpec == Init /\ [][CancelNext]_vars

\* A fetch call for `domain` runs lines 110-124 now: the pacing stamp and
\* the fingerprint lookup, with nothing else of the call.
FingerprintLookup(domain) ==
    /\ fetches < MaxFetches
    /\ fetches' = fetches + 1
    /\ last_fetch' = [last_fetch EXCEPT ![domain] = now]
    /\ domain_fingerprints' =
           FingerprintsAfterLookup(domain_fingerprints, domain, now,
                                   last_fetch[domain])
    /\ UNCHANGED <<now, brokerVars, task, ended, semaphore, browserVars,
                   served, open_contexts, session, tweet_waits, proxyVars>>

\* The fingerprint cache under lookups at any moments: MIN_DOMAIN_DELAY is a
\* setting and may be any fraction of the TTL, so pacing is left out.
FingerprintNext ==
    \/ Tick
    \/ \E domain \in Hosts : FingerprintLookup(domain)

FingerprintSpec == Init /\ [][FingerprintNext]_vars

(***************************************************************************)
(* URLs, as the strings the code tests: sequences of characters.           *)
(***************************************************************************)
Scheme == <<"h", "t", "t", "p", "s", ":", "/", "/">>
DotCom == <<".", "c", "o", "m">>
XCom == <<"x">> \o DotCom
TwitterCom == <<"t", "w", "i", "t", "t", "e", "r">> \o DotCom
NetflixCom == <<"n", "e", "t", "f", "l", "i">> \o XCom
ACom == <<"a">> \o DotCom

\* A URL by its host (urlparse(url).netloc) and what follows the host.
Url(host, rest) == [host |-> host, rest |-> rest]

\* The URLs fetched: a tweet on either host, a host that ends in the text
\* x.com, a page that names x.com in its query or twitter.com in its path,
\* and a page that has nothing to do with either.
Urls ==
    {Url(XCom, <<"/", "s", "/", "1">>),
     Url(TwitterCom, <<"/", "s", "/", "1">>),
     Url(NetflixCom, <<"/">>),
     Url(ACom, <<"/", "?", "q", "=">> \o XCom),
     Url(ACom, <<"/">> \o TwitterCom),
     Url(ACom, <<"/">>)}

\* The string `url`.
UrlString(u) == Scheme \o u.host \o u.rest

\* Python's `sub in s` for strings.
Contains(s, sub) ==
    \E i \in 0..(Len(s) - Len(sub)) : SubSeq(s, i + 1, i + Len(sub)) = sub

\* `if "x.com" in url or "twitter.com" in url`
IsTweetUrl(url) == Contains(url, XCom) \/ Contains(url, TwitterCom)

\* A fetch call for URL u runs lines 183-194 now: the settle sleep and, when
\* the test of the URL says so, the tweet selector wait, the scroll and the
\* 2 s sleep; with nothing else of the call.
Settle(u) ==
    /\ fetches < MaxFetches
    /\ fetches' = fetches + 1
    /\ tweet_waits' = Append(tweet_waits,
                             [url |-> u, waited |-> IsTweetUrl(UrlString(u))])
    /\ UNCHANGED <<now, brokerVars, task, ended, semaphore, browserVars,
                   served, open_contexts, last_fetch, session,
                   domain_fingerprints, proxyVars>>

\* The settle step under calls for any of the URLs.
SettleNext == \E u \in Urls : Settle(u)

SettleSpec == Init /\ [][SettleNext]_vars

\* One task calling fetch again and again, through the proxy pool.
AttemptNext ==
    \/ Tick
    \/ \E domain \in Hosts : FetchAcquire(1, domain)
    \/ FetchLock(1)
    \/ RestartClosed(1)
    \/ RestartLaunched(1)
    \/ PaceWake(1)
    \/ \E ok \in BOOLEAN : NewContextDone(1, ok)
    \/ \E ok \in BOOLEAN : SetupDone(1, ok)
    \/ \E r \in GotoResults : GotoDone(1, r)
    \/ \E r \in ContentResults : ContentDone(1, r)
    \/ \E ok \in BOOLEAN : StorageDone(1, ok)
    \/ ContextClosed(1)

AttemptSpec == InitProxies /\ [][AttemptNext]_vars

(***************************************************************************)
(* Properties of the job broker.                                           *)
(***************************************************************************)
IsPrefix(s, t) == Len(s) <= Len(t) /\ \A i \in 1..Len(s) : s[i] = t[i]

\* C1: the statuses saved (and broadcast) for a job are a prefix of
\* queued, processing, then one of completed or failed, and a row that is
\* in the store carries the status saved last.
C1_MonotoneStatuses ==
    \A j \in JobIds :
        /\ \E t \in Terminal :
               IsPrefix(written[j], <<"queued", "processing", t>>)
        /\ db[j] # None =>
               /\ written[j] # <<>>
               /\ db[j].status = written[j][Len(written[j])]

\* A job went through completed and its row was purged by the cleanup task
\* while another job went through failed.
C1_Witness ==
    \E j, k \in JobIds :
        /\ written[j] = <<"queued", "processing", "completed">>
        /\ db[j] = None
        /\ written[k] = <<"queued", "processing", "failed">>

\* C8: no job gets more than MAX_RETRIES + 1 scraper.fetch calls.
C8_AttemptBound == \A j \in JobIds : calls[j] <= MAX_RETRIES + 1

\* A job used its whole budget and failed on a retryable error.
C8_Witness ==
    \E j \in JobIds :
        /\ calls[j] = MAX_RETRIES + 1
        /\ db[j] # None
        /\ db[j].status = "failed"

\* C9: no scraper.fetch call is made for a job whose latest call ended in a
\* non-retryable error, and the step in which a call ends that way saves the
\* job as failed.
C9_StopOnFatal ==
    [][\A j \in JobIds :
          /\ calls'[j] > calls[j] => lastError[j] \notin {"fatal", "internal"}
          /\ (calls'[j] > calls[j] /\ lastError'[j] \in {"fatal", "internal"}) =>
                 written'[j] = <<"queued", "processing", "failed">>]_vars

\* HTTP 404 on the first attempt: failed after exactly one call.
C9_Witness ==
    \E j \in JobIds :
        /\ db[j] # None
        /\ db[j].status = "failed"
        /\ db[j].error_details = [code |-> HttpCode(404), retryable |-> FALSE]
        /\ calls[j] = 1

\* C10: a job that is failed with a retryable error had MAX_RETRIES + 1
\* calls, and after a call that ended in a retryable error with retries
\* left another call is eventually made.
C10_RetryUntilBudget ==
    /\ [](\A j \in JobIds :
            (/\ db[j] # None
             /\ db[j].status = "failed"
             /\ db[j].error_details.retryable) => calls[j] = MAX_RETRIES + 1)
    /\ \A j \in JobIds : \A n \in 1..MAX_RETRIES :
          (lastError[j] = "retryable" /\ calls[j] = n) ~> (calls[j] = n + 1)

\* A job failed on a retryable error after its last retry.
C10_Witness ==
    \E j \in JobIds :
        /\ db[j] # None
        /\ db[j].status = "failed"
        /\ db[j].error_details.retryable
        /\ calls[j] = MAX_RETRIES + 1
        /\ lastError[j] = "retryable"

\* C11: a stored row with status completed has a result and neither error
\* nor error_details, whatever the earlier attempts of the job left on it.
C11_CompletedHasResult ==
    \A j \in JobIds :
        (db[j] # None /\ db[j].status = "completed") =>
            /\ db[j].result # None
            /\ db[j].error = None
            /\ db[j].error_details = None

\* A job completed on a later attempt, after a retryable error.
C11_Witness ==
    \E j \in JobIds :
        /\ db[j] # None
        /\ db[j].status = "completed"
        /\ calls[j] > 1

\* C12: a stored row with status failed has an error and error_details and
\* no result.
C12_FailedHasError ==
    \A j \in JobIds :
        (db[j] # None /\ db[j].status = "failed") =>
            /\ db[j].error # None
            /\ db[j].error_details # None
            /\ db[j].result = None

\* One job failed on an engine error and another on an exception.
C12_Witness ==
    \E j, k \in JobIds :
        /\ db[j] # None /\ db[j].status = "failed"
        /\ db[j].error_details.code = Code("timeout")
        /\ db[k] # None /\ db[k].status = "failed"
        /\ db[k].error_details.code = Code("internal_error")

\* C13: a stored row carries completed_at exactly when its status is
\* terminal, a write that sets completed_at is the write of the terminal
\* status, and a row that carries completed_at is never written again (the
\* cleanup task may delete it).
C13_OneCompletion ==
    [][\A j \in JobIds :
          /\ db'[j] # None =>
                (db'[j].completed_at # NoTime <=> db'[j].status \in Terminal)
          /\ (db[j] # None /\ db[j].completed_at # NoTime) =>
                /\ db'[j] \in {db[j], None}
                /\ written'[j] = written[j]
          /\ (written[j] # <<>> /\ written[j][Len(written[j])] \in Terminal) =>
                written'[j] = written[j]]_vars

\* Both jobs were written with completed_at, one of them at a later time.
C13_Witness ==
    \E j, k \in JobIds :
        /\ db[j] # None /\ db[j].completed_at = 0
        /\ db[k] # None /\ db[k].completed_at > 0

\* C14: when the scraper call of a worker ends with an exception that is
\* not a ScraperError, the same step saves the job as failed with
\* {internal_error, retryable = false}, makes no retry, and leaves the worker
\* at queue.get(); no further call is made for that job.
C14_ExceptionFailsJobOnly ==
    [][/\ \A w \in Workers :
            (/\ wpc[w] = "fetch"
             /\ lastError'[wjob[w].id] = "internal") =>
                /\ wpc'[w] = "get"
                /\ attempt'[w] = attempt[w]
                /\ db'[wjob[w].id].status = "failed"
                /\ db'[wjob[w].id].error_details =
                       [code |-> Code("internal_error"), retryable |-> FALSE]
       /\ \A j \in JobIds :
            lastError[j] = "internal" => calls'[j] = calls[j]]_vars

\* A job failed on an exception in its first call, and a worker is in the
\* scraper call of the next job.
C14_Witness ==
    \E j \in JobIds : \E w \in Workers :
        /\ lastError[j] = "internal"
        /\ calls[j] = 1
        /\ db[j] # None /\ db[j].status = "failed"
        /\ wpc[w] = "fetch"
        /\ wjob[w].id > j

\* C15: every classified error has a code among no_response, http_<N>,
\* timeout, fetch_error, no_content, internal_error, and is retryable exactly
\* when its code is no_response, timeout, fetch_error or no_content, or
\* http_<N> with N one of 408, 429, 500, 502, 503, 504.  Checked for the
\* error of every HTTP status, for every way page.goto can end, and for the
\* error_details of every stored row.
KnownCodeNames ==
    {"no_response", "http", "timeout", "fetch_error", "no_content",
     "internal_error"}

RetryableBySpec(code) ==
    \/ code.name \in {"no_response", "timeout", "fetch_error", "no_content"}
    \/ code.name = "http" /\ code.status \in {408, 429, 500, 502, 503, 504}

WellClassified(code, retryable) ==
    /\ code.name \in KnownCodeNames
    /\ code.name = "http" => code.status >= 400
    /\ retryable <=> RetryableBySpec(code)

C15_Classification ==
    /\ \A status \in ErrorStatuses :
          WellClassified(HttpError(status).error_code,
                         HttpError(status).retryable)
    /\ \A r \in GotoResults :
          Classify(r) # NoOutcome =>
              WellClassified(Classify(r).error_code, Classify(r).retryable)
    /\ \A j \in JobIds :
          (db[j] # None /\ db[j].error_details # None) =>
              WellClassified(db[j].error_details.code,
                             db[j].error_details.retryable)

\* One job failed on HTTP 404 (not retryable) and another on no_content
\* (retryable) after its retries.
C15_Witness ==
    \E j, k \in JobIds :
        /\ db[j] # None
        /\ db[j].error_details = [code |-> HttpCode(404), retryable |-> FALSE]
        /\ db[k] # None
        /\ db[k].error_details = [code |-> Code("no_content"),
                                   retryable |-> TRUE]
        /\ db[k].status = "failed"

\* The statuses of the events of job j in mailbox q, in mailbox order.
StatusesOf(q, j) ==
    LET of_j == SelectSeq(q, LAMBDA e : e.job_id = j)
    IN [k \in 1..Len(of_j) |-> of_j[k].status]

\* C18: for every subscriber and job, the events of the job waiting in the
\* mailbox are job_update events and are exactly the saves of the job that
\* were made since it subscribed and that it has not been handed yet, in
\* the order of the saves; so what it is handed, oldest first, is every save
\* made since it subscribed, in order, and none made before.
C18_EveryTransitionInOrder ==
    \A i \in DOMAIN subscribers :
        /\ \A k \in DOMAIN subscribers[i] :
              subscribers[i][k].type = "job_update"
        /\ \A j \in JobIds :
              /\ streams[i][j] <= Len(written[j])
              /\ SelectSeq(subscribers[i], LAMBDA e : e.job_id = j) =
                     [k \in 1..(Len(written[j]) - streams[i][j]) |->
                         [type |-> "job_update", job_id |-> j,
                          status |-> written[j][streams[i][j] + k]]]

\* Two subscribers: one still holds all three events of a job, the other has
\* been handed some and holds the rest.
C18_Witness ==
    \E j \in JobIds :
        /\ Len(subscribers) = 2
        /\ streams[1][j] = 0
        /\ StatusesOf(subscribers[1], j) = <<"queued", "processing", "failed">>
        /\ streams[2][j] = 2
        /\ StatusesOf(subscribers[2], j) = <<"failed">>

\* C19: no mailbox ever holds every event of the run (three per job): a
\* bound on the mailbox drops the subscriber before that.
C19_MailboxBounded ==
    \A i \in DOMAIN subscribers : Len(subscribers[i]) < 3 * MaxJobs

\* C20: with subscribers that never read, no step that saves a job ever has
\* to wait: a submission, a worker that can take a job from the queue and a
\* worker whose scraper call ends can always take their step, whatever the
\* mailboxes hold; and when nothing is left to do every submitted job has
\* been saved with its terminal status.
C20_StalledSubscriberNoDelay ==
    /\ nextId < MaxJobs => ENABLED SubmitJob(None)
    /\ \A w \in Workers :
          /\ (wpc[w] = "get" /\ queue # <<>>) => ENABLED WorkerGet(w)
          /\ wpc[w] = "fetch" =>
                \A o \in FinalOutcomes : ENABLED WorkerFetch(w, o)
    /\ (queue = <<>> /\ \A w \in Workers : wpc[w] = "get") =>
          \A j \in 1..nextId : Len(written[j]) = 3

\* Every job is terminal and a subscriber holds all their events unread.
C20_Witness ==
    /\ \A j \in JobIds : db[j] # None /\ db[j].status \in Terminal
    /\ \E i \in DOMAIN subscribers :
          \A j \in JobIds : Len(StatusesOf(subscribers[i], j)) = 3

\* job j has been saved as processing.
Dispatched(j) == Len(written[j]) >= 2

\* C21: jobs are marked processing in the order they were submitted: a job
\* is saved as processing only when every job submitted before it has been,
\* no step marks two jobs, and the queue holds exactly the submitted jobs
\* not yet marked, oldest first.
C21_FifoDispatch ==
    /\ \A j, k \in JobIds : (j < k /\ Dispatched(k)) => Dispatched(j)
    /\ \A i \in 1..Len(queue) :
          /\ ~Dispatched(queue[i])
          /\ i > 1 => queue[i - 1] < queue[i]
    /\ \A j \in 1..nextId :
          ~Dispatched(j) => \E i \in 1..Len(queue) : queue[i] = j

\* Both workers are in the scraper call, the first job ended its first call
\* with a retryable error and the job submitted after it is in its own call.
C21_Witness ==
    \E v, w \in Workers :
        /\ wpc[v] = "fetch" /\ wjob[v].id = 1 /\ calls[1] = 1
        /\ wpc[w] = "fetch" /\ wjob[w].id = 2

\* get_job / _get_job_from_db: the stored row with its JSON columns loaded
\* (`json.loads(x) if x else None`), or None when there is no row.  No
\* column is compared with the clock.
Loads(v) == IF v = None THEN None ELSE v

GetJob(job_id) ==
    IF db[job_id] = None THEN None
    ELSE [db[job_id] EXCEPT !.result = Loads(@), !.error_details = Loads(@)]

\* C22: at any time later than completed_at + JOB_TTL_SECONDS get_job
\* returns None for the job.  Stated for the moments at which the cleanup
\* task is not overdue (its sleep ends now or later), so that a late wake-up
\* of the task is not what the statement depends on.
C22_GoneAfterTtl ==
    \A j \in JobIds :
        (/\ db[j] # None
         /\ db[j].completed_at # NoTime
         /\ now > db[j].completed_at + JOB_TTL_SECONDS
         /\ now <= cleanupAt) => GetJob(j) = None

\* The terminal status of job j has been saved.
Persisted(j) ==
    /\ written[j] # <<>>
    /\ written[j][Len(written[j])] \in Terminal

\* C33: under the event loop's fairness, with scraper calls and sleeps that
\* end, every job that was submitted eventually has status completed or
\* failed in the store: none stays queued or processing forever.
C33_EveryJobEnds ==
    \A j \in JobIds :
        (db[j] # None) ~> (db[j] # None /\ db[j].status \in Terminal)

\* Every job has ended, one of them after using all its retries while
\* another was waiting in the queue behind it.
C33_Witness ==
    /\ \A j \in JobIds : db[j] # None /\ db[j].status \in Terminal
    /\ \E j \in JobIds : calls[j] = MAX_RETRIES + 1 /\ db[j].status = "failed"
    /\ \E j \in JobIds : db[j].status = "completed"

\* C34: a stored row whose completed_at is set has status completed or
\* failed: the retry loop never ends with the job still processing.
C34_CompletedAtMeansTerminal ==
    \A j \in JobIds :
        (db[j] # None /\ db[j].completed_at # NoTime) =>
            db[j].status \in Terminal

\* A row got its completed_at when the last retry of the job had failed, and
\* another when the first call of its job returned a result.
C34_Witness ==
    \E j, k \in JobIds :
        /\ db[j] # None /\ db[j].completed_at # NoTime
        /\ calls[j] = MAX_RETRIES + 1 /\ lastError[j] = "retryable"
        /\ db[k] # None /\ db[k].completed_at # NoTime
        /\ calls[k] = 1 /\ lastError[k] = "none"

\* C35: MAX_RETRIES alone decides the attempts and the end of a job: no job
\* gets more than MAX_RETRIES + 1 calls, a job that failed on a retryable
\* error got exactly that many, and a row whose completed_at is set has a
\* terminal status, whatever MAX_REQUESTS_PER_BROWSER is.
C35_RetriesByMaxRetriesOnly ==
    \A j \in JobIds :
        /\ calls[j] <= MAX_RETRIES + 1
        /\ (db[j] # None /\ db[j].completed_at # NoTime) =>
              /\ db[j].status \in Terminal
              /\ (db[j].status = "failed" /\ db[j].error_details.retryable)
                    => calls[j] = MAX_RETRIES + 1

\* C36: a row leaves the store only in a step that finds its completed_at
\* set and more than JOB_TTL_SECONDS old; so a job that is queued or
\* processing is never deleted, and get_job returns a job from its submit
\* until at least JOB_TTL_SECONDS after its completed_at.
C36_DeletedOnlyAfterTtl ==
    [][\A j \in JobIds :
          (db[j] # None /\ db'[j] = None) =>
              /\ db[j].completed_at # NoTime
              /\ db[j].status \in Terminal
              /\ now - db[j].completed_at > JOB_TTL_SECONDS]_vars

\* The cleanup task has deleted a job that ended long enough ago and has
\* kept one that is still processing, which get_job returns.
C36_Witness ==
    \E j, k \in JobIds :
        /\ Persisted(j) /\ GetJob(j) = None
        /\ GetJob(k) # None /\ GetJob(k).status = "processing"
        /\ cleanupAt > now

\* The workers that are inside the retry loop of a job.
Busy == {w \in Workers : wpc[w] \in {"fetch", "backoff"}}

\* C37: the jobs whose stored status is processing are exactly the jobs the
\* busy workers hold, one job per worker and one worker per job; so there
\* are never more of them than workers.
C37_ProcessingWithinPool ==
    LET processing == {j \in JobIds : db[j] # None /\ db[j].status = "processing"}
    IN /\ processing = {wjob[w].id : w \in Busy}
       /\ \A v, w \in Busy : wjob[v].id = wjob[w].id => v = w
       /\ Cardinality(processing) <= Cardinality(Workers)

\* Every worker of the pool is busy, each with a job of its own.
C37_Witness ==
    /\ Busy = Workers
    /\ \A w \in Workers : db[wjob[w].id].status = "processing"
    /\ Cardinality({wjob[w].id : w \in Workers}) = Cardinality(Workers)

\* C38: the delay slept before retry k of a job is 2^k s plus a jitter of at
\* least 0 and less than 1 s, for k = 1..MAX_RETRIES, and each delay of a
\* job is strictly greater than the one before it.
C38_BackoffGrows ==
    \A w \in Workers :
        /\ Len(slept[w]) <= MAX_RETRIES
        /\ \A k \in 1..Len(slept[w]) :
              /\ slept[w][k] >= JitterUnit * (2 ^ k)
              /\ slept[w][k] < JitterUnit * (2 ^ k) + JitterUnit
              /\ k > 1 => slept[w][k] > slept[w][k - 1]

\* A job has used all its retries, the first after the largest jitter and
\* the last after the smallest.
C38_Witness ==
    \E w \in Workers :
        /\ Len(slept[w]) = MAX_RETRIES
        /\ slept[w][1] = JitterUnit * 2 + JitterUnit - 1
        /\ slept[w][MAX_RETRIES] = JitterUnit * (2 ^ MAX_RETRIES)

\* C26: a webhook task exists for a job exactly when the job has a
\* callback_url and its terminal status has been saved, and there is never
\* more than one; the task makes at most one POST, whether it fails or not;
\* while the POST is outstanding no worker holds the job any more, and a
\* worker at queue.get() with a job in the queue can take it.
C26_OneWebhook ==
    /\ \A j \in JobIds :
          /\ webhooks[j].scheduled <= 1
          /\ webhooks[j].posted <= webhooks[j].scheduled
          /\ webhooks[j].scheduled = 1 <=>
                (/\ Persisted(j)
                 /\ db[j] # None
                 /\ db[j].callback_url # None)
          /\ webhooks[j].posted < webhooks[j].scheduled =>
                \A w \in Workers : wjob[w] = None \/ wjob[w].id # j
    /\ \A w \in Workers :
          (wpc[w] = "get" /\ queue # <<>>) => ENABLED WorkerGet(w)

\* The first job, with a callback_url, failed after its retries and its
\* POST is outstanding; the second, without one, is already terminal and
\* has no webhook task.
C26_Witness ==
    /\ db[1] # None /\ db[1].status = "failed"
    /\ calls[1] = MAX_RETRIES + 1
    /\ webhooks[1] = [scheduled |-> 1, posted |-> 0]
    /\ db[2] # None /\ db[2].status \in Terminal
    /\ db[2].callback_url = None
    /\ webhooks[2] = [scheduled |-> 0, posted |-> 0]

\* C27: a job whose URL loads with non-empty content, once terminal, is
\* completed with the artifact as its result after exactly one call of
\* scraper.fetch.
C27_LoadableJobCompletes ==
    \A j \in JobIds :
        (Persisted(j) /\ db[j] # None) =>
            /\ db[j].status = "completed"
            /\ db[j].result = Artifact
            /\ calls[j] = 1

\* Browser teardown-and-relaunch events so far: every launch but the first.
Recycles == IF launched > 0 THEN launched - 1 ELSE 0

\* With one scraper call per job, the request counter exceeds
\* MAX_REQUESTS_PER_BROWSER once per MAX_REQUESTS_PER_BROWSER calls after
\* the first (5 jobs and a limit of 3: once).
ExpectedRecycles == (MaxJobs - 1) \div MAX_REQUESTS_PER_BROWSER

\* C28: when all MaxJobs jobs, whose URLs load, are terminal, every one of
\* them is completed and the browser has been recycled as often as the
\* request counter demands for that many calls, under every interleaving of
\* the workers.
C28_AllCompleteWithRecycles ==
    (\A j \in JobIds : Persisted(j)) =>
        /\ \A j \in JobIds : db[j] # None => db[j].status = "completed"
        /\ Recycles = ExpectedRecycles

(***************************************************************************)
(* Properties of the fetch engine.                                         *)
(***************************************************************************)
\* Task c runs lines 110-144 in this step: it records the pacing timestamp
\* of its host and dispatches.
Stamps(c) ==
    /\ task[c].pc \in {"lock", "launching", "pacing"}
    /\ task'[c].pc \in {"new_context", "idle"}

\* C2: whenever a fetch records the pacing timestamp of its host, the
\* timestamp recorded before it for that host is at least MIN_DOMAIN_DELAY
\* old, so that two stamps of one host are never closer than that.
C2_PacedStamps ==
    [][\A c \in Tasks :
          Stamps(c) =>
              \/ last_fetch[task[c].domain] = NoTime
              \/ now - last_fetch[task[c].domain] >= MIN_DOMAIN_DELAY]_vars

\* C3: the number of navigations dispatched on the running browser instance
\* since its launch never exceeds MAX_REQUESTS_PER_BROWSER.
C3_NavigationsPerInstance == served <= MAX_REQUESTS_PER_BROWSER

\* C4: no call of new_context returns a context while a task holds the
\* restart lock (closing or launching the browser).
C4_NoContextDuringRestart ==
    [][\A c \in Tasks :
          (task[c].pc = "new_context" /\ task'[c].pc = "setup") =>
              restart_lock = 0]_vars

\* Where a fetch call is once it has left the restart section and until its
\* context is closed.
PastRestart ==
    {"pacing", "new_context", "setup", "goto", "settle", "storage", "close"}

\* C29: while a fetch call is past the restart section, waiting to build its
\* context or holding one, browser.close() has not been issued on the
\* browser, and the context the call asked for or holds belongs to the
\* browser that is running: no restart takes the browser from under it.
C29_NoTeardownUnderAttempt ==
    \A c \in Tasks :
        task[c].pc \in PastRestart =>
            /\ ~closing
            /\ task[c].context # 0 => task[c].context = browser

\* C5: the number of contexts created and not yet closed never exceeds
\* MAX_CONCURRENT_BROWSERS.
C5_OpenContexts == open_contexts <= MAX_CONCURRENT_BROWSERS

\* C6: once page.goto has ended, an attempt that used a proxy has made
\* exactly one call of mark_bad or mark_good on it.
C6_OneHealthCall ==
    \A c \in Tasks :
        (/\ task[c].pc \in {"settle", "storage", "close"}
         /\ task[c].proxy_url # NoProxy) => task[c].bad + task[c].good = 1

\* C30: a proxy is in the quarantine set only when at least BAD_THRESHOLD
\* fetch attempts that used it have failed since the last attempt on it
\* that succeeded (or since startup).
C30_QuarantineAfterThreeFailures ==
    \A p \in bad_proxies : failed_attempts[p] >= BAD_THRESHOLD

\* Where a fetch call is while it holds a context that new_context returned.
HoldsContext == {"setup", "goto", "settle", "storage", "close"}

\* C32: the contexts created on the running browser and not closed are
\* exactly those held by the fetch calls in progress: a call that has
\* released its slot has left no context open, whichever way it ended.
C32_NoContextLeftOpen ==
    open_contexts =
        Cardinality({c \in Tasks : task[c].pc \in HoldsContext /\ Alive(c)})

\* Where a fetch call is inside the restart section (`async with
\* self.restart_lock`), waiting for the lock included.
InRestartSection == {"lock", "closing", "launching"}

\* C39: a fetch call that leaves the restart section goes on to build its
\* context (or ends) in the same step: the pacing wait lies before the
\* restart check, and nothing that suspends lies between the restart check
\* and new_context.
C39_PaceBeforeRestartCheck ==
    [][\A c \in Tasks :
          task[c].pc \in InRestartSection =>
              task'[c].pc \in InRestartSection \cup {"new_context", "idle"}]_vars

\* The hosts of tweets.
TweetHosts == {XCom, TwitterCom}

\* C40: the tweet wait is made for a URL exactly when the URL's host is x.com
\* or twitter.com.
C40_TweetWaitByHost ==
    \A i \in DOMAIN tweet_waits :
        tweet_waits[i].waited <=> tweet_waits[i].url.host \in TweetHosts

\* C7: no fetch call ends with an exception other than a ScraperError: what
\* leaves the engine is a result or a classified error.
C7_OnlyClassifiedErrors == ended.kind # "Exception"

\* C23: every fetch call that is inside `async with self.semaphore` holds
\* exactly one slot and no other slot is held, however calls have ended (a
\* result, a ScraperError, another exception, a cancellation); so when no
\* call is in progress every slot is free.
C23_SlotsReleased ==
    /\ semaphore >= 0
    /\ semaphore + Cardinality({c \in Tasks : task[c].pc # "idle"})
           = MAX_CONCURRENT_BROWSERS

\* Every call the run makes has ended, the last one by cancellation, the
\* browser has been restarted, and no slot is held.
C23_Witness ==
    /\ fetches = MaxFetches
    /\ \A c \in Tasks : task[c].pc = "idle"
    /\ ended = Cancelled
    /\ launched >= 2
    /\ semaphore = MAX_CONCURRENT_BROWSERS

\* page.content() returned: the rendered DOM was captured.
Captured == {Artifact, Empty}

\* C24: the session-state file of a host changes only in a step in which a
\* task fetching that host ends its storage_state call, which it makes only
\* after page.content() has returned; every other step of an attempt, and
\* so every attempt that ends in an error before the capture, leaves every
\* file as it was.
C24_SessionWrittenAfterCapture ==
    [][\A h \in Hosts :
          session'[h] # session[h] =>
              \E c \in Tasks :
                  /\ task[c].pc = "storage"
                  /\ task[c].domain = h
                  /\ task[c].content \in Captured
                  /\ task'[c].pc = "close"
                  /\ session'[h] = session[h] + 1]_vars

\* The file of a host was written by one attempt, and a later attempt on
\* the host ended in a timeout of page.goto.
C24_Witness ==
    \E h \in Hosts :
        /\ session[h] = 1
        /\ last_fetch[h] = MIN_DOMAIN_DELAY
        /\ \A g \in Hosts \ {h} : last_fetch[g] = NoTime
        /\ ended = TimeoutError
        /\ \A c \in Tasks : task[c].pc = "idle"

\* This step is a fingerprint lookup for host h that moved the pacing stamp
\* or the cache (a lookup that leaves both as they are changes nothing).
IsLookup(h) ==
    \/ last_fetch'[h] # last_fetch[h]
    \/ domain_fingerprints'[h] # domain_fingerprints[h]

IsGet == rr_index' # rr_index

\* C16: get_next_proxy never returns a proxy that has had 3 consecutive
\* mark_bad calls, unless mark_good was called on it since or a full-pool
\* reset occurred (in this call or before).
C16_QuarantineHolds ==
    [][IsGet =>
          \A i \in 1..Len(barred') : barred'[i] # returned']_vars

\* P1 has had 3 consecutive failures and get_next_proxy has returned P2 at
\* least twice since.
C16_Witness ==
    /\ barred = <<1>>
    /\ returned = 2
    /\ rr_index >= 3
    /\ streak[2] < 3

\* C17 as stated: with P1 barred every call returns P2, and the call that
\* finds P1 and then P2 barred (and resets the pool) returns P1, whatever
\* the number of calls made before.
C17_ResetReturnsP1 ==
    [][IsGet =>
          /\ barred = <<1>> => returned' = 2
          /\ barred = <<1, 2>> => returned' = 1]_vars

\* C17 amended: with P1 barred every call returns P2, and the call that
\* finds P1 and then P2 barred resets the pool and returns P1 when the
\* number of calls made before is even, P2 when it is odd.
C17_ResetReturnsByIndex ==
    [][IsGet =>
          /\ barred = <<1>> => returned' = 2
          /\ barred = <<1, 2>> =>
                /\ barred' = <<>>
                /\ rr_index % 2 = 0 => returned' = 1
                /\ rr_index % 2 = 1 => returned' = 2]_vars

\* P1 and then P2 were barred and the call that reset the pool, the fourth
\* call, returned P2.
C17_Witness ==
    /\ barred = <<>>
    /\ streak[1] >= 3 /\ streak[2] >= 3
    /\ bad_proxies = {}
    /\ rr_index = 4
    /\ returned = 2

\* C31: in every state a proxy is in the quarantine set exactly when its
\* failure count is at least BAD_THRESHOLD; so after a full-pool reset a
\* proxy is quarantined again only once BAD_THRESHOLD further mark_bad calls
\* have been counted for it.
C31_QuarantinedIffThreeFailures ==
    \A p \in ProxyIds :
        p \in bad_proxies <=> proxy_failures[p] >= BAD_THRESHOLD

====
